---- MODULE Spec2Model ----
(***************************************************************************)
(* A state-machine model of the FastSLAM core of PedroTaborda/SAut:        *)
(*   src/slam/map.py       Map, Landmark, the module-level line model      *)
(*   src/slam/particle.py  Particle and its observation methods            *)
(*   src/slam/offline.py   slam_sensor_data, the replay loop               *)
(*   src/sensor_data/sensor_data.py  SensorData.hash_str                   *)
(*                                                                         *)
(* Python objects live in heaps: a Particle refers to a Map object, a Map  *)
(* object refers to its landmarks dict, and a dict binds integer keys to   *)
(* Landmark states.  Sharing of a dict between two Map objects is thus     *)
(* visible in the model.  A Python exception is an outcome of an           *)
(* operation: the state keeps what was assigned before the raise.          *)
(*                                                                         *)
(* Numbers are kept on a grid.  Angles are integer multiples of a quarter  *)
(* turn (pi/2), so that sines and cosines are exact; lengths are integers. *)
(* The Kalman filter behind a Landmark (ekf/ekf.py) is not part of src/;   *)
(* it is modelled from section 4.1 of the specification, in fixed point.   *)
(***************************************************************************)
EXTENDS Integers, Sequences, FiniteSets, TLC

VARIABLES
    particles,   \* heap of Particle objects: [map, pose, weight]
    maps,        \* heap of Map objects: [landmarks |-> index into dicts]
    dicts,       \* heap of dict objects: [keys |-> insertion order, lm |-> key -> Landmark]
    lastCall,    \* the operation that ran last: its arguments, the observation it
                 \* passed to Map.update, what Map.update returned, how it ended
    ops,         \* number of operations run so far
    data,        \* slam_sensor_data: the SensorData streams (timestamps)
    idx,         \* slam_sensor_data: the indices i (lidar), j (camera), k (odometry)
    pc,          \* slam_sensor_data: position in the function
    trace,       \* slam_sensor_data: the events processed so far, in order
    calc         \* the last application of a function taken on its own: the
                 \* function, its arguments and what it returned

vars == <<particles, maps, dicts, lastCall, ops, data, idx, pc, trace, calc>>
particleVars == <<particles, maps, dicts, lastCall, ops>>
offlineVars == <<data, idx, pc, trace>>
calcVars == <<calc>>

(***************************************************************************)
(* Bounds of the model.                                                    *)
(***************************************************************************)
MaxParticles == 2     \* Particle objects that may exist
MaxOps == 3           \* operations in one behaviour
MaxTime == 1          \* timestamps of sensor events are 0..MaxTime
MaxLen == 2           \* events in the lidar and camera streams; odometry has one more

(***************************************************************************)
(* Arithmetic on the grid.                                                 *)
(***************************************************************************)
\* pi, in angle units (the unit is pi/2)
HalfTurn == 2

Cos(a) ==
    CASE a % (2 * HalfTurn) = 0 -> 1
      [] a % (2 * HalfTurn) = 2 -> -1
      [] OTHER -> 0

Sin(a) ==
    CASE a % (2 * HalfTurn) = 1 -> 1
      [] a % (2 * HalfTurn) = 3 -> -1
      [] OTHER -> 0

\* np.mod(a + np.pi, 2*np.pi) - np.pi
Wrap(a) == ((a + HalfTurn) % (2 * HalfTurn)) - HalfTurn

\* np.sign
Sign(x) == IF x > 0 THEN 1 ELSE IF x < 0 THEN -1 ELSE 0

\* division rounding toward zero (the fixed-point rounding of the filter)
Quot(a, b) == IF a >= 0 THEN a \div b ELSE -((-a) \div b)

Min(S) == CHOOSE x \in S : \A y \in S : x <= y

\* R @ v for the rotation R = [[cos t, -sin t], [sin t, cos t]]
Rot(t, v) == <<Cos(t) * v[1] - Sin(t) * v[2], Sin(t) * v[1] + Cos(t) * v[2]>>

\* R.T @ v for the same R
RotT(t, v) == <<Cos(t) * v[1] + Sin(t) * v[2], Cos(t) * v[2] - Sin(t) * v[1]>>

Dot(u, v) == u[1] * v[1] + u[2] * v[2]

(***************************************************************************)
(* map.py: the module-level line model, with its parameters bundle         *)
(* (p, theta, R, lidar_vector, n_gain); R is the rotation by theta.        *)
(***************************************************************************)
\* h_inv_line up to `x = rh_world, th_world`
h_inv_line_raw(z, parameters) ==
    LET th_world == Wrap(z[2] + parameters.theta)
        point == Rot(parameters.theta,
                     <<z[1] * Cos(z[2]) + parameters.lidar_vector[1],
                       z[1] * Sin(z[2]) + parameters.lidar_vector[2]>>)
        point_on_line_world == <<point[1] + parameters.p[1], point[2] + parameters.p[2]>>
        rh_world == Dot(point_on_line_world, <<Cos(th_world), Sin(th_world)>>)
    IN  <<rh_world, th_world>>

h_inv_line(z, parameters) ==
    LET x == h_inv_line_raw(z, parameters)
    IN  IF x[1] < 0
        THEN <<-x[1], ((x[2] + 2 * HalfTurn) % (2 * HalfTurn)) - HalfTurn>>
        ELSE x

\* h_line up to `z = [rh_robot, th_robot]`
h_line_raw(x, parameters) ==
    LET th_robot == Wrap(x[2] - parameters.theta)
        moved == RotT(parameters.theta,
                      <<x[1] * Cos(x[2]) - parameters.p[1],
                        x[1] * Sin(x[2]) - parameters.p[2]>>)
        point_on_line_robot == <<moved[1] - parameters.lidar_vector[1],
                                 moved[2] - parameters.lidar_vector[2]>>
        rh_robot == Dot(point_on_line_robot, <<Cos(th_robot), Sin(th_robot)>>)
    IN  <<rh_robot, th_robot>>

h_line(x, parameters) ==
    LET z == h_line_raw(x, parameters)
    IN  IF z[1] < 0
        THEN <<-z[1], ((z[2] + 2 * HalfTurn) % (2 * HalfTurn)) - HalfTurn>>
        ELSE z

\* dhx[0, 0] of get_Dhx_line; dhx[0, 1] carries the factor norm(p) and
\* dhx[1, :] = (0, 1)
get_Dhx_line(x, parameters) ==
    -Sign(Dot(parameters.p, <<Cos(x[2]), Sin(x[2])>>) - x[1])

\* n_gain = diag(sigma_rho, sigma_alpha), kept as the inverse standard
\* deviations in grid units: sigma_rho = 0.1 m is one unit of length,
\* sigma_alpha = pi/16 is an eighth of the unit of angle
NGainInv == <<1, 8>>

get_Dhn_line(x, parameters) == parameters.n_gain_inv

(***************************************************************************)
(* The injected diff operators: Map.update's default and the line diff of  *)
(* make_line_observation.                                                  *)
(***************************************************************************)
\* map.py: diff = lambda x, y: x-y
default_diff(x, y) == [n \in 1..Len(x) |-> x[n] - y[n]]

\* particle.py: diff(rh_th1, rh_th2)
line_diff(rh_th1, rh_th2) == <<rh_th1[1] - rh_th2[1], Wrap(rh_th1[2] - rh_th2[2])>>

ApplyDiff(diff, x, y) == IF diff = "line" THEN line_diff(x, y) ELSE default_diff(x, y)

(***************************************************************************)
(* ekf/ekf.py is not in src/: the filter is modelled from section 4.1 of   *)
(* the specification.  The bundles passed to Map.update have p = (0, 0),   *)
(* for which Hx = diag(dhx, 1) and Hn = n_gain, so every matrix of the     *)
(* filter is diagonal: the covariance is kept as the pair of divisors n    *)
(* with Sigma = diag(sigma_rho^2 / n[1], sigma_alpha^2 / n[2]).            *)
(* A likelihood (normalize = false) is exp(-(1/2) * num / den).            *)
(***************************************************************************)
\* y' Hn^-T Hn^-1 y per component, before the covariance factor
SqNorm(y, g) == <<(y[1] * g[1]) * (y[1] * g[1]), (y[2] * g[2]) * (y[2] * g[2])>>

\* EKF.get_likelihood(z, diff, normalize=False): S = Hx Sigma Hx' + Hn Hn'
EKF_get_likelihood(lm, z, diff, parameters) ==
    LET y == ApplyDiff(diff, z, h_line(lm.mu, parameters))
        d == get_Dhx_line(lm.mu, parameters)
        q == SqNorm(y, get_Dhn_line(lm.mu, parameters))
        den1 == d * d + lm.cov[1]
        den2 == 1 + lm.cov[2]
    IN  [isNone |-> FALSE,
         num |-> q[1] * lm.cov[1] * den2 + q[2] * lm.cov[2] * den1,
         den |-> den1 * den2]

\* EKF.update(z, diff): K = Sigma Hx' S^-1, mu <- mu + K y, Sigma <- (I - K Hx) Sigma
EKF_update(lm, z, diff, parameters) ==
    LET y == ApplyDiff(diff, z, h_line(lm.mu, parameters))
        d == get_Dhx_line(lm.mu, parameters)
    IN  [lm EXCEPT !.mu = <<lm.mu[1] + Quot(d * y[1], d * d + lm.cov[1]),
                            lm.mu[2] + Quot(y[2], 1 + lm.cov[2])>>,
                   !.cov = <<d * d + lm.cov[1], 1 + lm.cov[2]>>]

(***************************************************************************)
(* map.py: Landmark                                                        *)
(***************************************************************************)
\* Landmark.__init__ on settings carrying mu0 and cov0
NewLandmark(type, mu0, cov0) ==
    [type |-> type, mu |-> mu0, cov |-> cov0, seen_counter |-> 0]

\* Landmark.update(zx, parameters, diff)
LandmarkUpdate(lm, zx, diff, parameters) ==
    [EKF_update(lm, h_line(zx, parameters), diff, parameters)
        EXCEPT !.seen_counter = lm.seen_counter + 1]

\* Landmark.get_likelihood(z, diff, parameters, normalize=False)
LandmarkGetLikelihood(lm, z, diff, parameters) ==
    EKF_get_likelihood(lm, z, diff, parameters)

(***************************************************************************)
(* map.py: Map                                                             *)
(***************************************************************************)
\* what Map.update returns on creating a landmark
None == [isNone |-> TRUE, num |-> 0, den |-> 1]

\* Map.__init__: the empty landmarks dict
EmptyDict == [keys |-> <<>>, lm |-> <<>>]

Keys(dict) == {dict.keys[n] : n \in 1..Len(dict.keys)}

Lookup(dict, key) == dict.lm[CHOOSE n \in 1..Len(dict.keys) : dict.keys[n] = key]

\* self.landmarks[key] = landmark: a new key goes last in the insertion order,
\* a key already bound keeps its place
Bind(dict, key, landmark) ==
    IF key \in Keys(dict)
    THEN [dict EXCEPT !.lm[CHOOSE n \in 1..Len(dict.keys) : dict.keys[n] = key] = landmark]
    ELSE [keys |-> Append(dict.keys, key), lm |-> Append(dict.lm, landmark)]

\* MapUpdateCreate returning the number 1.0 in place of None
MapUpdateCreate_ReturnsOne(dict, obs, parameters) ==
    IF obs.model = "closure"
    THEN [dict |-> dict, ret |-> None, outcome |-> "TypeError"]
    ELSE LET x0 == h_inv_line(obs.z, parameters)
             Dhx == get_Dhx_line(x0, parameters)
         IN  IF Dhx = 0
             THEN [dict |-> dict, ret |-> None, outcome |-> "LinAlgError"]
             ELSE [dict |-> Bind(dict, obs.landmark_id, NewLandmark(obs.type, x0, <<1, 1>>)),
                   ret |-> [isNone |-> FALSE, num |-> 0, den |-> 1], outcome |-> "ok"]

\* Map.update, the branch `obs.landmark_id not in self.landmarks`: the dict
\* afterwards, the value returned and how the call ended.  obs.model tells which
\* callables the observation carries: "closure" for the one-argument closures
\* h_inv(z), get_Dhx(x), get_Dhn(x) of particle.py, "module" for h_inv_line,
\* h_line, get_Dhx_line, get_Dhn_line of map.py, which take (., parameters).
MapUpdateCreate(dict, obs, parameters) ==
    IF obs.model = "closure"
    THEN \* obs.h_inv(obs.z, parameters): two arguments to h_inv(z)
         [dict |-> dict, ret |-> None, outcome |-> "TypeError"]
    ELSE LET x0 == h_inv_line(obs.z, parameters)
             Dhx == get_Dhx_line(x0, parameters)
         IN  IF Dhx = 0
             THEN \* np.linalg.inv of a singular matrix
                  [dict |-> dict, ret |-> None, outcome |-> "LinAlgError"]
             ELSE [dict |-> Bind(dict, obs.landmark_id, NewLandmark(obs.type, x0, <<1, 1>>)),
                   ret |-> None, outcome |-> "ok"]

\* MapUpdateExisting with the two statements swapped: the likelihood is taken
\* from the landmark after its update
MapUpdateExisting_LikelihoodAfter(dict, obs, diff, parameters) ==
    LET lm == Lookup(dict, obs.landmark_id)
        updated == LandmarkUpdate(lm, h_inv_line(obs.z, parameters), diff, parameters)
    IN  IF obs.model = "closure"
        THEN [dict |-> dict, ret |-> None, outcome |-> "TypeError"]
        ELSE [dict |-> Bind(dict, obs.landmark_id, updated),
              ret |-> LandmarkGetLikelihood(updated, obs.z, diff, parameters),
              outcome |-> "ok"]

\* Map.update, the else branch
MapUpdateExisting(dict, obs, diff, parameters) ==
    LET lm == Lookup(dict, obs.landmark_id)
        likelyhood == LandmarkGetLikelihood(lm, obs.z, diff, parameters)
    IN  IF obs.model = "closure"
        THEN \* obs.h_inv(obs.z, parameters=parameters): h_inv(z) takes no such
             \* keyword; get_likelihood has run and changed nothing
             [dict |-> dict, ret |-> None, outcome |-> "TypeError"]
        ELSE [dict |-> Bind(dict, obs.landmark_id,
                            LandmarkUpdate(lm, h_inv_line(obs.z, parameters), diff, parameters)),
              ret |-> likelyhood, outcome |-> "ok"]

\* Map.update without the membership test: every call constructs a landmark
MapUpdate_AlwaysCreate(dict, obs, diff, parameters) ==
    MapUpdateCreate(dict, obs, parameters)

\* Map.update(obs, diff, parameters) on the dict `dict`
MapUpdate(dict, obs, diff, parameters) ==
    IF obs.landmark_id \notin Keys(dict)
    THEN MapUpdateCreate(dict, obs, parameters)
    ELSE MapUpdateExisting(dict, obs, diff, parameters)

(***************************************************************************)
(* particle.py: Particle                                                   *)
(***************************************************************************)
\* the placement of an offset added to external marker ids
FIDUCIAL_OFFSET == 100

\* `if max_likelihood < 0.2`: the density exp(-q/2) / (2 pi sigma_rho sigma_alpha)
\* is at least 0.2 exactly when q = d' cov^-1 d <= 7.40, for the n_gain above
ReuseMaxQ == 7

\* the closure h_inv(z) of make_line_observation up to `x = rh_world, th_world`
h_inv_closure_raw(pose, z) ==
    LET theta == pose[3]
        th_world == Wrap(z[2] + theta)
        moved == Rot(theta, <<z[1] * Cos(z[2]), z[1] * Sin(z[2])>>)
        point_on_line_world == <<moved[1] + pose[1], moved[2] + pose[2]>>
        rh_world == Dot(point_on_line_world, <<Cos(th_world), Sin(th_world)>>)
    IN  <<rh_world, th_world>>

\* the closure h_inv(z) of make_line_observation, for the pose
h_inv_closure(pose, z) ==
    LET x == h_inv_closure_raw(pose, z)
    IN  IF x[1] < 0 THEN <<-x[1], Wrap(x[2])>> ELSE x

\* the closure h(x, n) at n = 0 up to `z = [rh_robot, th_robot]`
h_closure_raw(pose, x) ==
    LET theta == pose[3]
        th_robot == Wrap(x[2] - theta)
        point_on_line_robot == RotT(theta, <<x[1] * Cos(x[2]) - pose[1],
                                             x[1] * Sin(x[2]) - pose[2]>>)
        rh_robot == Dot(point_on_line_robot, <<Cos(th_robot), Sin(th_robot)>>)
    IN  <<rh_robot, th_robot>>

\* the closure h(x, n) of make_line_observation at n = 0, for the pose
h_closure(pose, x) ==
    LET z == h_closure_raw(pose, x)
    IN  IF z[1] < 0 THEN <<-z[1], Wrap(z[2])>> ELSE z

\* d' cov^-1 d of dist.pdf(diff(z, zhat_mu)), cov = n_gain @ n_gain.T; the
\* density is larger exactly when this is smaller
PdfExponent(pose, landmark, z) ==
    LET d == line_diff(z, h_closure(pose, landmark.mu))
        q == SqNorm(d, NGainInv)
    IN  q[1] + q[2]

RECURSIVE BestMatch_AllKeys(_, _, _, _, _)
\* BestMatch looping over every key of the map, not only the negative ones
BestMatch_AllKeys(dict, pose, z, n, best) ==
    IF n > Len(dict.keys) THEN best
    ELSE LET e == PdfExponent(pose, dict.lm[n], z)
         IN  IF ~best.found \/ e < best.exponent
             THEN BestMatch_AllKeys(dict, pose, z, n + 1,
                                    [found |-> TRUE, exponent |-> e, best_key |-> dict.keys[n]])
             ELSE BestMatch_AllKeys(dict, pose, z, n + 1, best)

\* the loop `for key in observed_lines_keys` from its n-th key on; best is
\* (found, exponent of max_likelihood, best_key), found = FALSE standing for
\* max_likelihood = 0
RECURSIVE BestMatch(_, _, _, _, _)
BestMatch(dict, pose, z, n, best) ==
    IF n > Len(dict.keys) THEN best
    ELSE IF dict.keys[n] >= 0 THEN BestMatch(dict, pose, z, n + 1, best)
    ELSE LET e == PdfExponent(pose, dict.lm[n], z)
         IN  IF ~best.found \/ e < best.exponent
             THEN BestMatch(dict, pose, z, n + 1,
                            [found |-> TRUE, exponent |-> e, best_key |-> dict.keys[n]])
             ELSE BestMatch(dict, pose, z, n + 1, best)

\* LineLandmarkId with `min(observed_lines_keys)` for the fresh key, the
\* `- 1` forgotten
LineLandmarkId_NoDecrement(dict, pose, z) ==
    LET observed_lines_keys == {key \in Keys(dict) : key < 0}
        best == BestMatch(dict, pose, z, 1,
                          [found |-> FALSE, exponent |-> 0, best_key |-> 0])
    IN  IF ~best.found \/ best.exponent > ReuseMaxQ
        THEN IF observed_lines_keys # {} THEN Min(observed_lines_keys) ELSE -1
        ELSE best.best_key

\* the landmark_id make_line_observation gives its LineObservation
LineLandmarkId(dict, pose, z) ==
    LET observed_lines_keys == {key \in Keys(dict) : key < 0}
        best == BestMatch(dict, pose, z, 1,
                          [found |-> FALSE, exponent |-> 0, best_key |-> 0])
    IN  IF ~best.found \/ best.exponent > ReuseMaxQ
        THEN IF observed_lines_keys # {} THEN Min(observed_lines_keys) - 1 ELSE -1
        ELSE best.best_key

\* the landmark_id of make_unoriented_observation
UnorientedLandmarkId(marker) == marker + FIDUCIAL_OFFSET

\* the landmark_id of make_oriented_observation
OrientedLandmarkId(marker) == marker

\* self.weight *= L for a number L; a weight w is exp(-(1/2) * num / den)
MulWeight(w, L) == [num |-> w.num * L.den + L.num * w.den, den |-> w.den * L.den]

\* parameters = None
NoParameters == [p |-> <<0, 0>>, theta |-> 0, lidar_vector |-> <<0, 0>>,
                 n_gain_inv |-> <<0, 0>>]

DictOf(p) == maps[particles[p].map].landmarks

\* self.weight *= self.map.update(obs, diff): the whole tail of an observation
\* method of particle p
Observe(op, p, obs, diff) ==
    LET r == MapUpdate(dicts[DictOf(p)], obs, diff, NoParameters)
        outcome == IF r.outcome # "ok" THEN r.outcome
                   ELSE IF r.ret.isNone THEN "TypeError"   \* float *= None
                   ELSE "ok"
    IN  /\ dicts' = [dicts EXCEPT ![DictOf(p)] = r.dict]
        /\ particles' = IF outcome = "ok"
                        THEN [particles EXCEPT ![p].weight = MulWeight(@, r.ret)]
                        ELSE particles
        /\ lastCall' = [op |-> op, particle |-> p, landmark_id |-> obs.landmark_id,
                        present |-> obs.landmark_id \in Keys(dicts[DictOf(p)]),
                        outcome |-> outcome, ret |-> r.ret,
                        z |-> obs.z, parameters |-> NoParameters,
                        diff |-> diff, action |-> "none"]
        /\ ops' = ops + 1
        /\ UNCHANGED <<maps, offlineVars, calcVars>>

(***************************************************************************)
(* Inputs.                                                                 *)
(***************************************************************************)
\* (rho, alpha) measured by the lidar line extractor
LineMeasurements == {<<rh, th>> : rh \in {0, 3}, th \in {-HalfTurn, 0}}
\* external fiducial ids
Markers == {0, 1}
\* keys a caller of Map.update names for a line
LineKeys == {-2, -1}
\* a key in the fiducial range a caller of Map.update names
FiducialKeys == {FIDUCIAL_OFFSET}
\* bundles (p, theta, R, lidar_vector, n_gain) a caller of Map.update passes
Bundles == {[p |-> <<0, 0>>, theta |-> t, lidar_vector |-> <<0, 0>>,
             n_gain_inv |-> NGainInv] : t \in {0, 1}}
\* motion samples handed to apply_action
Motions == {"ahead", "left"}

Move(f, pose) ==
    IF f = "ahead"
    THEN <<pose[1] + Cos(pose[3]), pose[2] + Sin(pose[3]), pose[3]>>
    ELSE <<pose[1], pose[2], Wrap(pose[3] + 1)>>

(***************************************************************************)
(* Operations on particles and maps.                                       *)
(***************************************************************************)
\* Particle(): a brand new particle with a new Map
InitParticles ==
    /\ particles = <<[map |-> 1, pose |-> <<0, 0, 0>>, weight |-> [num |-> 0, den |-> 1]]>>
    /\ maps = <<[landmarks |-> 1]>>
    /\ dicts = <<EmptyDict>>
    /\ lastCall = [op |-> "init", particle |-> 1, landmark_id |-> 0, present |-> FALSE,
                   outcome |-> "ok", ret |-> None,
                    z |-> <<0, 0>>, parameters |-> NoParameters,
                    diff |-> "none", action |-> "none"]
    /\ ops = 0

\* Particle() called once more: Particle.__init__ with map = None
NewParticle ==
    /\ ops < MaxOps
    /\ Len(particles) < MaxParticles
    /\ dicts' = Append(dicts, EmptyDict)
    /\ maps' = Append(maps, [landmarks |-> Len(dicts) + 1])
    /\ particles' = Append(particles, [map |-> Len(maps) + 1, pose |-> <<0, 0, 0>>,
                                       weight |-> [num |-> 0, den |-> 1]])
    /\ lastCall' = [op |-> "Particle", particle |-> Len(particles) + 1, landmark_id |-> 0,
                    present |-> FALSE, outcome |-> "ok", ret |-> None,
                    z |-> <<0, 0>>, parameters |-> NoParameters,
                    diff |-> "none", action |-> "none"]
    /\ ops' = ops + 1
    /\ UNCHANGED <<offlineVars, calcVars>>

\* Map.copy: copy.copy(self), a new Map object with the attributes of the old
MapCopy(m) == [landmarks |-> maps[m].landmarks]

\* Particle(map, pose, weight) taking the `map is None` branch whatever it is
\* given: default pose, weight 1.0
Particle_BrandNew(map, pose, weight) ==
    [map |-> map, pose |-> <<0, 0, 0>>, weight |-> [num |-> 0, den |-> 1]]

\* Particle(map, pose, weight) with a map: np.array(pose) is an array of its
\* own, a float is immutable, so the particle holds both by value
Particle(map, pose, weight) == [map |-> map, pose |-> pose, weight |-> weight]

\* Particle.copy: copy.copy(self.pose) and copy.copy(self.weight) are the values
Copy(p) ==
    /\ ops < MaxOps
    /\ Len(particles) < MaxParticles
    /\ maps' = Append(maps, MapCopy(particles[p].map))
    /\ particles' = Append(particles, Particle(Len(maps) + 1, particles[p].pose,
                                               particles[p].weight))
    /\ lastCall' = [op |-> "copy", particle |-> p, landmark_id |-> 0, present |-> FALSE,
                    outcome |-> "ok", ret |-> None,
                    z |-> <<0, 0>>, parameters |-> NoParameters,
                    diff |-> "none", action |-> "none"]
    /\ ops' = ops + 1
    /\ UNCHANGED <<dicts, offlineVars, calcVars>>

\* apply_action calling its action on the pose it has just computed as well
apply_action_Twice(pose, action) == Move(action, Move(action, pose))

\* the pose after self.pose = action(self.pose)
apply_action(pose, action) == Move(action, pose)

\* Particle.apply_action
ApplyAction(p, f) ==
    /\ ops < MaxOps
    /\ particles' = [particles EXCEPT ![p].pose = apply_action(@, f)]
    /\ lastCall' = [op |-> "apply_action", particle |-> p, landmark_id |-> 0,
                    present |-> FALSE, outcome |-> "ok", ret |-> None,
                    z |-> <<0, 0>>, parameters |-> NoParameters,
                    diff |-> "none", action |-> f]
    /\ ops' = ops + 1
    /\ UNCHANGED <<maps, dicts, offlineVars, calcVars>>

\* Particle.make_line_observation
MakeLineObservation(p, z) ==
    /\ ops < MaxOps
    /\ Observe("make_line_observation", p,
               [landmark_id |-> LineLandmarkId(dicts[DictOf(p)], particles[p].pose, z),
                z |-> z, type |-> "LINE", model |-> "closure"],
               "line")

\* Particle.make_unoriented_observation
MakeUnorientedObservation(p, marker) ==
    /\ ops < MaxOps
    /\ Observe("make_unoriented_observation", p,
               [landmark_id |-> UnorientedLandmarkId(marker),
                z |-> <<0, 0>>, type |-> "UNORIENTED", model |-> "closure"],
               "default")

\* Particle.make_oriented_observation
MakeOrientedObservation(p, marker) ==
    /\ ops < MaxOps
    /\ Observe("make_oriented_observation", p,
               [landmark_id |-> OrientedLandmarkId(marker),
                z |-> <<0, 0, 0>>, type |-> "ORIENTED", model |-> "closure"],
               "default")

\* Map.update on the map of particle p, called with a LineObservation that
\* carries the line model of map.py, the line diff and a parameters bundle
UpdateMap(p, key, z, parameters) ==
    /\ ops < MaxOps
    /\ LET r == MapUpdate(dicts[DictOf(p)],
                          [landmark_id |-> key, z |-> z, type |-> "LINE",
                           model |-> "module"],
                          "line", parameters)
       IN  /\ dicts' = [dicts EXCEPT ![DictOf(p)] = r.dict]
           /\ lastCall' = [op |-> "Map.update", particle |-> p, landmark_id |-> key,
                           present |-> key \in Keys(dicts[DictOf(p)]),
                           outcome |-> r.outcome, ret |-> r.ret,
                           z |-> z, parameters |-> parameters,
                           diff |-> "line", action |-> "none"]
    /\ ops' = ops + 1
    /\ UNCHANGED <<particles, maps, offlineVars, calcVars>>

Idle ==
    /\ data = [lidar |-> <<>>, camera |-> <<>>, odometry |-> <<>>]
    /\ idx = [i |-> -1, j |-> -1, k |-> 0]
    /\ pc = "idle"
    /\ trace = <<>>

\* no function applied yet
NoCalc == [fn |-> "none"]

Init == InitParticles /\ Idle /\ calc = NoCalc

Next ==
    \/ NewParticle
    \/ \E p \in 1..Len(particles) : Copy(p)
    \/ \E p \in 1..Len(particles), f \in Motions : ApplyAction(p, f)
    \/ \E p \in 1..Len(particles), z \in LineMeasurements : MakeLineObservation(p, z)
    \/ \E p \in 1..Len(particles), marker \in Markers : MakeUnorientedObservation(p, marker)
    \/ \E p \in 1..Len(particles), marker \in Markers : MakeOrientedObservation(p, marker)
    \/ \E p \in 1..Len(particles), key \in LineKeys \cup FiducialKeys, z \in LineMeasurements,
          parameters \in Bundles : UpdateMap(p, key, z, parameters)

Spec == Init /\ [][Next]_vars

(***************************************************************************)
(* Properties of particles and maps.                                       *)
(***************************************************************************)
ParticleObservationOps ==
    {"make_line_observation", "make_unoriented_observation", "make_oriented_observation"}

ObservationOps == ParticleObservationOps \cup {"Map.update"}

Landmarks(dict) == {dict.lm[n] : n \in 1..Len(dict.lm)}

\* C1: copy isolation.  An observation applied to a particle q leaves the map of
\* every other particle p unchanged: same keys, and the same mean, covariance
\* and seen count under every key.
C1_CopyIsolation ==
    [][\A p \in 1..Len(particles), q \in 1..Len(particles) :
          (p # q /\ lastCall'.op \in ObservationOps /\ lastCall'.particle = q)
              => dicts'[DictOf(p)] = dicts[DictOf(p)]]_vars

\* C2: an observation method of a particle that reaches Map.update with a
\* landmark id not yet in the map completes normally and leaves the weight of
\* the particle as it was.
C2_NewLandmarkKeepsWeight ==
    [][(lastCall'.op \in ParticleObservationOps /\ ~lastCall'.present)
          => /\ lastCall'.outcome = "ok"
             /\ particles'[lastCall'.particle].weight
                    = particles[lastCall'.particle].weight]_vars

C4_LikelihoodBeforeUpdate ==
    [][(lastCall'.op = "Map.update" /\ lastCall'.present)
          => LET d == DictOf(lastCall'.particle)
                 before == dicts[d]
                 after == dicts'[d]
                 key == lastCall'.landmark_id
                 old == Lookup(before, key)
                 y == line_diff(lastCall'.z, h_line(old.mu, lastCall'.parameters))
             IN  /\ lastCall'.outcome = "ok"
                 /\ ~lastCall'.ret.isNone
                 \* exp(-(1/2) y' S^-1 y) with S from the old covariance
                 /\ lastCall'.ret.num * (1 + old.cov[1]) * (1 + old.cov[2])
                        = lastCall'.ret.den
                          * ( y[1] * y[1] * NGainInv[1] * NGainInv[1]
                                  * old.cov[1] * (1 + old.cov[2])
                            + y[2] * y[2] * NGainInv[2] * NGainInv[2]
                                  * old.cov[2] * (1 + old.cov[1]) )
                 /\ after.keys = before.keys
                 /\ Lookup(after, key) # old
                 /\ \A k \in Keys(before) \ {key} : Lookup(after, k) = Lookup(before, k)
                 /\ \A other \in 1..Len(dicts) : other # d => dicts'[other] = dicts[other]]_vars

\* an existing landmark was updated by an observation away from its mean
C4_Witness ==
    /\ lastCall.op = "Map.update" /\ lastCall.present /\ lastCall.outcome = "ok"
    /\ lastCall.ret.num > 0

\* C5: every landmark of every map has seen_counter >= 1, from its creation on.
C5_SeenAtLeastOnce ==
    \A d \in 1..Len(dicts) : \A lm \in Landmarks(dicts[d]) : lm.seen_counter >= 1

\* C6: the id make_line_observation passes to Map.update is never 0 and always
\* negative.  It is the key of an existing landmark only when that landmark
\* matched the observation (density not below 0.2); otherwise it is one less than
\* the smallest negative key of the map, or -1 when the map has no negative key,
\* hence below every line key already there.
C6_FreshLineKey ==
    [][lastCall'.op = "make_line_observation"
          => LET p == lastCall'.particle
                 before == dicts[DictOf(p)]
                 lines == {k \in Keys(before) : k < 0}
                 id == lastCall'.landmark_id
             IN  /\ id < 0
                 /\ lastCall'.present = (id \in lines)
                 /\ id \in lines
                        => PdfExponent(particles[p].pose, Lookup(before, id), lastCall'.z)
                               <= ReuseMaxQ
                 /\ id \notin lines
                        => /\ \A k \in lines : id < k
                           /\ \E k \in lines \cup {0} :
                                  /\ id = k - 1
                                  /\ \A other \in lines : k <= other]_vars

\* a fresh key was allocated below the line keys of a map that has some
C6_Witness ==
    /\ lastCall.op = "make_line_observation" /\ ~lastCall.present
    /\ lastCall.landmark_id <= -2
    /\ Keys(dicts[DictOf(lastCall.particle)]) # {}

\* C7: the key a fiducial observation, unoriented or oriented, hands to Map.update
\* lies in the range reserved for fiducials and is strictly positive.
C7_FiducialKeyPositive ==
    lastCall.op \in {"make_unoriented_observation", "make_oriented_observation"}
        => lastCall.landmark_id >= FIDUCIAL_OFFSET /\ lastCall.landmark_id > 0

\* C8: the key set of a map only grows.  A key keeps its place and its landmark
\* object (the landmark is either untouched or has been updated, never replaced
\* by a new one), and a key appears only as the id of the observation being
\* processed, which was not in the map before.
C8_KeysOnlyGrow ==
    [][\A d \in 1..Len(dicts) :
          LET before == dicts[d]
              after == dicts'[d]
          IN  /\ Len(after.keys) >= Len(before.keys)
              /\ \A n \in 1..Len(before.keys) :
                     /\ after.keys[n] = before.keys[n]
                     /\ after.lm[n].type = before.lm[n].type
                     /\ \/ after.lm[n] = before.lm[n]
                        \/ /\ after.lm[n].seen_counter = before.lm[n].seen_counter + 1
                           /\ after.lm[n].cov[1] >= before.lm[n].cov[1]
                           /\ after.lm[n].cov[2] > before.lm[n].cov[2]
              /\ \A n \in (Len(before.keys) + 1)..Len(after.keys) :
                     /\ n = Len(before.keys) + 1
                     /\ after.keys[n] = lastCall'.landmark_id
                     /\ after.keys[n] \notin Keys(before)
                     /\ lastCall'.op \in ObservationOps
                     /\ ~lastCall'.present]_vars

\* a map holds two landmarks and the older one has been updated since
C8_Witness ==
    \E d \in 1..Len(dicts) :
        /\ Len(dicts[d].keys) = 2
        /\ dicts[d].lm[1].seen_counter >= 1
        /\ lastCall.op = "Map.update" /\ lastCall.present

(***************************************************************************)
(* offline.py: slam_sensor_data(data), realtime = False.                   *)
(* A stream is the sequence of the timestamps of its events.  The filter   *)
(* behind `slammer` (slam/fastslam.py) is not in src/: of its calls the    *)
(* model keeps which ones an iteration makes.  Python indexes from 0,      *)
(* sequences from 1: At(s, n) is s[n].                                     *)
(***************************************************************************)
At(s, n) == s[n + 1]

RECURSIVE SortedSeqs(_, _)
\* the non-decreasing sequences of at most n timestamps, none below lo
SortedSeqs(n, lo) ==
    IF n = 0 THEN {<<>>}
    ELSE {<<>>} \cup UNION {{<<t>> \o rest : rest \in SortedSeqs(n - 1, t)} : t \in lo..MaxTime}

\* a SensorData whose streams are each in timestamp order
SensorDatas ==
    {[lidar |-> l, camera |-> c, odometry |-> o] :
        l \in SortedSeqs(MaxLen, 0), c \in SortedSeqs(MaxLen, 0),
        o \in SortedSeqs(MaxLen + 1, 0)}

\* there_is_data(data, idx_lidar, idx_camera, idx_odometry)
there_is_data(d, idx_lidar, idx_camera, idx_odometry) ==
    \/ idx_lidar < Len(d.lidar)
    \/ idx_camera < Len(d.camera)
    \/ idx_odometry < Len(d.odometry)

\* next_times(): per stream the timestamp of its next event, has = FALSE
\* standing for np.inf (t0_ros is subtracted from all three alike)
next_times ==
    <<[has |-> idx.i + 1 < Len(data.lidar),
       t |-> IF idx.i + 1 < Len(data.lidar) THEN At(data.lidar, idx.i + 1) ELSE 0],
      [has |-> idx.j + 1 < Len(data.camera),
       t |-> IF idx.j + 1 < Len(data.camera) THEN At(data.camera, idx.j + 1) ELSE 0],
      [has |-> idx.k + 1 < Len(data.odometry),
       t |-> IF idx.k + 1 < Len(data.odometry) THEN At(data.odometry, idx.k + 1) ELSE 0]>>

Less(a, b) == a.has /\ (~b.has \/ a.t < b.t)

\* np.argmin picking the first stream that has an event, whatever its time
ArgMin_FirstWithData(times) ==
    CHOOSE n \in 0..2 :
        /\ At(times, n).has
        /\ \A m \in 0..(n - 1) : ~At(times, m).has

\* np.argmin(times): the first index of a smallest entry
ArgMin(times) ==
    CHOOSE n \in 0..2 :
        /\ \A m \in 0..2 : ~Less(At(times, m), At(times, n))
        /\ \A m \in 0..(n - 1) : Less(At(times, n), At(times, m))

InitOffline ==
    /\ InitParticles
    /\ data \in SensorDatas
    /\ idx = [i |-> -1, j |-> -1, k |-> 0]
    /\ pc = "start"
    /\ trace = <<>>
    /\ calc = NoCalc

\* Start reading data.odometry[k] where the code reads data.odometry[k+1]
Start_OdometryFromFirst ==
    /\ pc = "start"
    /\ pc' = IF Len(data.lidar) > 0 /\ Len(data.camera) > 0 /\ Len(data.odometry) > 0
             THEN "loop" ELSE "IndexError"
    /\ UNCHANGED <<data, idx, trace, particleVars, calcVars>>

\* t0_ros = [...][np.argmin([...])] on data.lidar[0], data.camera[0], data.odometry[1]
Start ==
    /\ pc = "start"
    /\ pc' = IF Len(data.lidar) > 0 /\ Len(data.camera) > 0 /\ Len(data.odometry) > 1
             THEN "loop" ELSE "IndexError"
    /\ UNCHANGED <<data, idx, trace, particleVars, calcVars>>

\* one iteration of `while there_is_data(data, i+1, j+1, k+1)`: the branch of
\* the stream picked and the `if j % 10 == 0: slammer.resample()` after it
Iterate ==
    /\ pc = "loop"
    /\ there_is_data(data, idx.i + 1, idx.j + 1, idx.k + 1)
    /\ LET it == ArgMin(next_times)
           next == IF it = 0 THEN [idx EXCEPT !.i = @ + 1]
                   ELSE IF it = 1 THEN [idx EXCEPT !.j = @ + 1]
                   ELSE [idx EXCEPT !.k = @ + 1]
       IN  /\ idx' = next
           /\ trace' = Append(trace,
                  [it |-> it,
                   index |-> IF it = 0 THEN next.i ELSE IF it = 1 THEN next.j ELSE next.k,
                   t |-> IF it = 0 THEN At(data.lidar, next.i)
                         ELSE IF it = 1 THEN At(data.camera, next.j)
                         ELSE At(data.odometry, next.k),
                   \* x0, y0, theta0 = data.odometry[-k][1]
                   x0_index |-> IF it = 2 THEN Len(data.odometry) - next.k ELSE -1,
                   resample |-> next.j % 10 = 0])
    /\ UNCHANGED <<data, pc, particleVars, calcVars>>

\* the loop condition fails and the function returns
Return ==
    /\ pc = "loop"
    /\ ~there_is_data(data, idx.i + 1, idx.j + 1, idx.k + 1)
    /\ pc' = "done"
    /\ UNCHANGED <<data, idx, trace, particleVars, calcVars>>

NextOffline == Start \/ Iterate \/ Return

SpecOffline == InitOffline /\ [][NextOffline]_vars

(***************************************************************************)
(* Properties of slam_sensor_data.                                         *)
(***************************************************************************)
IsSorted(s) == \A n \in 1..(Len(s) - 1) : s[n] <= s[n + 1]

\* C9: with each stream in timestamp order, the events are processed in
\* non-decreasing timestamp order, whichever streams they come from.
C9_ProcessedInTimeOrder ==
    (IsSorted(data.lidar) /\ IsSorted(data.camera) /\ IsSorted(data.odometry))
        => \A n \in 1..(Len(trace) - 1) : trace[n].t <= trace[n + 1].t

\* a run to the end that went from one stream to another as time advanced
C9_Witness ==
    /\ pc = "done"
    /\ \E n \in 1..(Len(trace) - 1) :
           trace[n].it = 2 /\ trace[n + 1].it = 0 /\ trace[n].t < trace[n + 1].t

\* the place of a stream in the order odometry, lidar, camera
Rank(it) == IF it = 2 THEN 0 ELSE IF it = 0 THEN 1 ELSE 2

\* C10: events of different streams with the same timestamp are processed
\* odometry first, then lidar, then camera: when an event has just been
\* processed, no stream that comes earlier in that order has its next event
\* waiting with the same timestamp.
C10_OdometryLidarCamera ==
    Len(trace) > 0
        => LET last == trace[Len(trace)]
           IN  \A it \in 0..2 :
                   (At(next_times, it).has /\ At(next_times, it).t = last.t)
                       => Rank(it) >= Rank(last.it)

\* C11: at every odometry event k >= 1 the delta handed to perform_action is
\* taken between the readings odometry[k-1] and odometry[k].
C11_DeltaFromSuccessiveReadings ==
    \A n \in 1..Len(trace) :
        trace[n].it = 2
            => /\ trace[n].index >= 1
               /\ trace[n].x0_index = trace[n].index - 1

NonEmptyStreams ==
    Len(data.lidar) > 0 /\ Len(data.camera) > 0 /\ Len(data.odometry) > 0

\* how many iterations so far processed the event `index` of stream `it`
Consumed(it, index) ==
    Cardinality({n \in 1..Len(trace) : trace[n].it = it /\ trace[n].index = index})

\* C12: on non-empty streams slam_sensor_data runs to the end of the streams
\* and returns.  It does not stop in an error; each iteration consumes exactly
\* one event, no event twice, so there are no more iterations than events; and
\* when it returns, every lidar event, every camera event and every odometry
\* reading after the first has been consumed exactly once.
C12_RunsToEndOfStream ==
    NonEmptyStreams
        => /\ pc # "IndexError"
           /\ Len(trace) = (idx.i + 1) + (idx.j + 1) + idx.k
           /\ Len(trace) <= Len(data.lidar) + Len(data.camera) + Len(data.odometry) - 1
           /\ \A n \in 1..Len(trace) : Consumed(trace[n].it, trace[n].index) = 1
           /\ pc = "done"
                  => /\ \A n \in 0..(Len(data.lidar) - 1) : Consumed(0, n) = 1
                     /\ \A n \in 0..(Len(data.camera) - 1) : Consumed(1, n) = 1
                     /\ \A n \in 1..(Len(data.odometry) - 1) : Consumed(2, n) = 1

(***************************************************************************)
(* The line functions and hash_str taken on their own: each action applies *)
(* one function, once, to arguments drawn from a bounded set and keeps     *)
(* what it returned in calc.                                               *)
(***************************************************************************)
MaxRho == 2           \* line distances and pose coordinates reach MaxRho

\* (rho, alpha) pairs; alpha reaches from -pi to +pi, both ends included
LinePairs == {<<rh, th>> : rh \in 0..MaxRho, th \in (-HalfTurn)..HalfTurn}

\* poses (px, py, theta) of a particle
Poses == {<<px, py, theta>> : px \in (-MaxRho)..MaxRho, py \in {-1, 0, 1},
                              theta \in (-HalfTurn)..HalfTurn}

\* bundles (p, theta, R, lidar_vector, n_gain) for the functions of map.py
PoseBundles ==
    {[p |-> <<pose[1], pose[2]>>, theta |-> pose[3], lidar_vector |-> v,
      n_gain_inv |-> NGainInv] : pose \in Poses, v \in {<<0, 0>>, <<1, 0>>}}

\* diff(rh_th1, rh_th2) of make_line_observation
ApplyLineDiff(rh_th1, rh_th2) ==
    /\ calc = NoCalc
    /\ calc' = [fn |-> "diff", args |-> <<rh_th1, rh_th2>>,
                out |-> line_diff(rh_th1, rh_th2)]
    /\ UNCHANGED <<particleVars, offlineVars>>

\* h_inv(z) of make_line_observation, for a particle at `pose`
ApplyHInv(pose, z) ==
    /\ calc = NoCalc
    /\ calc' = [fn |-> "h_inv", args |-> <<pose, z>>,
                raw |-> h_inv_closure_raw(pose, z), out |-> h_inv_closure(pose, z)]
    /\ UNCHANGED <<particleVars, offlineVars>>

\* h(x, 0) of make_line_observation, for a particle at `pose`
ApplyH(pose, x) ==
    /\ calc = NoCalc
    /\ calc' = [fn |-> "h", args |-> <<pose, x>>,
                raw |-> h_closure_raw(pose, x), out |-> h_closure(pose, x)]
    /\ UNCHANGED <<particleVars, offlineVars>>

\* h_inv_line(z, parameters) of map.py
ApplyHInvLine(z, parameters) ==
    /\ calc = NoCalc
    /\ calc' = [fn |-> "h_inv_line", args |-> <<parameters, z>>,
                raw |-> h_inv_line_raw(z, parameters), out |-> h_inv_line(z, parameters)]
    /\ UNCHANGED <<particleVars, offlineVars>>

\* h_line(x, parameters) of map.py
ApplyHLine(x, parameters) ==
    /\ calc = NoCalc
    /\ calc' = [fn |-> "h_line", args |-> <<parameters, x>>,
                raw |-> h_line_raw(x, parameters), out |-> h_line(x, parameters)]
    /\ UNCHANGED <<particleVars, offlineVars>>

(***************************************************************************)
(* sensor_data.py: SensorData.hash_str.  An array is the value of its      *)
(* buffer; the bytes fed to the hash are a flat sequence of such values.   *)
(***************************************************************************)
RECURSIVE Float32Exp(_)
\* how many low bits of the integer t >= 0 do not fit the 24-bit significand
Float32Exp(t) == IF t < 2^24 THEN 0 ELSE 1 + Float32Exp(t \div 2)

\* struct.pack("f", t): t as an IEEE-754 single, rounded to nearest, ties to even
pack_f(t) ==
    LET u == 2^Float32Exp(t)
        q == t \div u
        r == t % u
    IN  IF 2 * r > u \/ (2 * r = u /\ q % 2 = 1) THEN (q + 1) * u ELSE q * u

RECURSIVE Flatten(_)
Flatten(ss) == IF ss = <<>> THEN <<>> ELSE Head(ss) \o Flatten(Tail(ss))

\* everything hash_repr.update is called on, in order
HashedBytes(d) ==
    Flatten([n \in 1..Len(d.odometry) |-> <<pack_f(d.odometry[n].t), d.odometry[n].arr>>])
    \o Flatten([n \in 1..Len(d.lidar) |-> <<pack_f(d.lidar[n].t), d.lidar[n].arr>>])
    \o Flatten([n \in 1..Len(d.camera) |->
            <<pack_f(d.camera[n].t)>>
            \o Flatten([m \in 1..Len(d.camera[n].landmarks) |->
                    \* idbytes = bytearray(struct.pack("f", t))
                    <<pack_f(d.camera[n].t), d.camera[n].landmarks[m].arr>>])])

\* _hash_str = None
NoHash == [isNone |-> TRUE, value |-> <<>>]

\* SHA-1 taken as injective: a digest is the byte sequence it was fed
hash_str(d) == IF ~d.cached.isNone THEN d.cached.value ELSE HashedBytes(d)

\* a container after hash_str(): self._hash_str holds the digest
Hashed(d) == [d EXCEPT !.cached = [isNone |-> FALSE, value |-> hash_str(d)]]

\* timestamps: the second one is past what a float32 holds exactly
HashTimes == {1, 2^24 + 1}

\* freshly built containers: one odometry reading, one lidar scan, one camera
\* frame with one detection and its image
Containers ==
    {[odometry |-> <<[t |-> 1, arr |-> ao]>>,
      lidar |-> <<[t |-> 1, arr |-> 0]>>,
      camera |-> <<[t |-> tc, landmarks |-> <<[id |-> id, arr |-> ac]>>, image |-> image]>>,
      comment |-> comment,
      cached |-> NoHash] :
        ao \in {0, 1}, tc \in HashTimes, id \in {0, 1}, ac \in {0, 1},
        image \in {0, 1}, comment \in {"", "run 2"}}

\* hash_str() on two containers
HashStr(a, b) ==
    /\ calc = NoCalc
    /\ calc' = [fn |-> "hash_str", a |-> Hashed(a), b |-> Hashed(b),
                out |-> <<hash_str(a), hash_str(b)>>]
    /\ UNCHANGED <<particleVars, offlineVars>>

NextFunctions ==
    \/ \E rh_th1 \in LinePairs, rh_th2 \in LinePairs : ApplyLineDiff(rh_th1, rh_th2)
    \/ \E pose \in Poses, z \in LinePairs : ApplyHInv(pose, z)
    \/ \E pose \in Poses, x \in LinePairs : ApplyH(pose, x)
    \/ \E z \in LinePairs, parameters \in PoseBundles : ApplyHInvLine(z, parameters)
    \/ \E x \in LinePairs, parameters \in PoseBundles : ApplyHLine(x, parameters)
    \/ \E a \in Containers, b \in Containers : HashStr(a, b)

SpecFunctions == Init /\ [][NextFunctions]_vars

(***************************************************************************)
(* Properties of the line functions and of hash_str.                       *)
(***************************************************************************)
\* C13: the angular component the line diff returns lies in (-pi, pi]: above
\* -pi, at most +pi.
C13_DiffAngleHalfOpen ==
    calc.fn = "diff" => (-HalfTurn < calc.out[2] /\ calc.out[2] <= HalfTurn)

\* two (rho, alpha) pairs denote the same line
SameLine(a, b) ==
    \/ a[1] = b[1] /\ (a[2] - b[2]) % (2 * HalfTurn) = 0
    \/ a[1] = -b[1] /\ (a[2] - b[2]) % (2 * HalfTurn) = HalfTurn

\* C14: h, h_inv, h_line and h_inv_line return rho >= 0 and a pair that
\* denotes the line of the pair they computed; when that pair has rho < 0 they
\* return rho negated and alpha shifted by pi, wrapped.
C14_CanonicalLine ==
    calc.fn \in {"h", "h_inv", "h_line", "h_inv_line"}
        => /\ calc.out[1] >= 0
           /\ SameLine(calc.out, calc.raw)
           /\ calc.raw[1] < 0
                  => /\ calc.out[1] = -calc.raw[1]
                     /\ (calc.out[2] - calc.raw[2]) % (2 * HalfTurn) = HalfTurn
                     /\ -HalfTurn <= calc.out[2] /\ calc.out[2] <= HalfTurn

\* d with every detection id, or every image and the comment, blanked
Blanked(d, ids, images) ==
    [odometry |-> d.odometry,
     lidar |-> d.lidar,
     camera |-> [n \in 1..Len(d.camera) |->
                    [t |-> d.camera[n].t,
                     landmarks |-> [m \in 1..Len(d.camera[n].landmarks) |->
                                       [id |-> IF ids THEN 0 ELSE d.camera[n].landmarks[m].id,
                                        arr |-> d.camera[n].landmarks[m].arr]],
                     image |-> IF images THEN 0 ELSE d.camera[n].image]],
     comment |-> IF images THEN "" ELSE d.comment]

\* the detections whose id differs between a and b
IdsThatDiffer(a, b) ==
    {nm \in UNION {{<<n, m>> : m \in 1..Len(a.camera[n].landmarks)} : n \in 1..Len(a.camera)} :
        a.camera[nm[1]].landmarks[nm[2]].id # b.camera[nm[1]].landmarks[nm[2]].id}

\* C19: two containers that are the same but for the id of one detection
\* have different hashes; two that differ only in images or comment have the
\* same hash.
C19_HashCoversIds ==
    calc.fn = "hash_str"
        => /\ (Blanked(calc.a, TRUE, FALSE) = Blanked(calc.b, TRUE, FALSE)
                  /\ Cardinality(IdsThatDiffer(calc.a, calc.b)) = 1)
                  => calc.out[1] # calc.out[2]
           /\ Blanked(calc.a, FALSE, TRUE) = Blanked(calc.b, FALSE, TRUE)
                  => calc.out[1] = calc.out[2]

(***************************************************************************)
(* Further properties of particles and maps.                               *)
(***************************************************************************)
\* C15: the diff make_oriented_observation hands to Map.update subtracts the
\* first two components and wraps the third: whatever the two angles, the third
\* component of the innovation is their difference brought back within a half
\* turn of zero.
C15_OrientedDiffWraps ==
    lastCall.op = "make_oriented_observation"
        => \A a \in (-HalfTurn)..HalfTurn, b \in (-HalfTurn)..HalfTurn :
               LET d == ApplyDiff(lastCall.diff, <<1, 0, a>>, <<0, 0, b>>)
               IN  /\ d[1] = 1 /\ d[2] = 0
                   /\ (d[3] - (a - b)) % (2 * HalfTurn) = 0
                   /\ -HalfTurn <= d[3] /\ d[3] <= HalfTurn

\* the bundle (p, theta, R, lidar_vector, n_gain) of a particle at `pose`
PoseBundle(pose) ==
    [p |-> <<pose[1], pose[2]>>, theta |-> pose[3], lidar_vector |-> <<0, 0>>,
     n_gain_inv |-> NGainInv]

\* the squared Mahalanobis distance of z to a landmark through its filter, as
\* the fraction num / den
Mahalanobis(landmark, z, pose) ==
    EKF_get_likelihood(landmark, z, "line", PoseBundle(pose))

\* C16: make_line_observation reuses a line landmark exactly when the best
\* squared Mahalanobis distance of the observation to a line landmark, taken
\* with the landmark's innovation covariance, is at most tau^2 = 9, and then it
\* reuses a landmark at that best distance; otherwise the key is fresh.  (Stated
\* for particles at the origin, where the diagonal filter is exact.)
C16_ReuseWithinGate ==
    [][(lastCall'.op = "make_line_observation"
            /\ particles[lastCall'.particle].pose[1] = 0
            /\ particles[lastCall'.particle].pose[2] = 0)
          => LET p == lastCall'.particle
                 before == dicts[DictOf(p)]
                 lines == {k \in Keys(before) : k < 0}
                 id == lastCall'.landmark_id
                 M(k) == Mahalanobis(Lookup(before, k), lastCall'.z, particles[p].pose)
                 Within(k) == M(k).num <= 3 * 3 * M(k).den
             IN  /\ lastCall'.present = (\E k \in lines : Within(k))
                 /\ lastCall'.present
                        => /\ id \in lines
                           /\ \A k \in lines : M(id).num * M(k).den <= M(k).num * M(id).den]_vars

C18_ApplyActionFrame ==
    [][lastCall'.op = "apply_action"
          => LET p == lastCall'.particle
             IN  /\ particles'[p].pose = Move(lastCall'.action, particles[p].pose)
                 /\ particles'[p].weight = particles[p].weight
                 /\ particles'[p].map = particles[p].map
                 /\ \A q \in 1..Len(particles) : q # p => particles'[q] = particles[q]
                 /\ Len(particles') = Len(particles)
                 /\ maps' = maps
                 /\ dicts' = dicts]_vars

\* a particle whose map holds a landmark has turned and then moved ahead
C18_Witness ==
    /\ lastCall.op = "apply_action" /\ lastCall.action = "ahead"
    /\ particles[lastCall.particle].pose = <<0, 1, 1>>
    /\ Keys(dicts[DictOf(lastCall.particle)]) # {}

\* C20: an observation method of a particle hands Map.update a bundle built
\* from the pose of the particle, and the first observation of a landmark that
\* is not in the map ends with that landmark in the map of the particle.
C20_ParametersAccepted ==
    [][(lastCall'.op \in ParticleObservationOps /\ ~lastCall'.present)
          => LET p == lastCall'.particle
             IN  /\ lastCall'.parameters # NoParameters
                 /\ lastCall'.parameters.p = <<particles[p].pose[1], particles[p].pose[2]>>
                 /\ lastCall'.parameters.theta = particles[p].pose[3]
                 /\ lastCall'.outcome # "TypeError"
                 /\ lastCall'.landmark_id \in Keys(dicts'[DictOf(p)])]_vars

(***************************************************************************)
(* Further properties of slam_sensor_data.                                 *)
(***************************************************************************)
\* C21: resample is called only in an iteration that has just processed a
\* camera event whose index is a multiple of 10: never in an iteration that
\* processed a lidar or an odometry event, hence at most once per camera event.
C21_ResampleOnCameraOnly ==
    \A n \in 1..Len(trace) :
        trace[n].resample => (trace[n].it = 1 /\ trace[n].index % 10 = 0)

\* the place of a key in the iteration order of a dict
Place(dict, key) == CHOOSE n \in 1..Len(dict.keys) : dict.keys[n] = key

\* C22: the candidates of make_line_observation are the keys < 0 of the map of
\* the particle, never a key of the fiducial range.  A key that is reused is a
\* candidate whose match with the observation is the best of all candidates,
\* and of the candidates that match equally well it is the earliest in the
\* iteration order of the map.
C22_BestCandidate ==
    [][(lastCall'.op = "make_line_observation" /\ lastCall'.present)
          => LET p == lastCall'.particle
                 before == dicts[DictOf(p)]
                 candidates == {k \in Keys(before) : k < 0}
                 id == lastCall'.landmark_id
                 Score(k) == PdfExponent(particles[p].pose, Lookup(before, k), lastCall'.z)
             IN  /\ id \in candidates
                 /\ \A k \in candidates :
                        /\ Score(id) <= Score(k)
                        /\ Place(before, k) < Place(before, id) => Score(id) < Score(k)]_vars

\* a key was reused in a map where another line key matches the observation
\* as well as the reused one
C22_Witness ==
    /\ lastCall.op = "make_line_observation" /\ lastCall.present
    /\ LET dict == dicts[DictOf(lastCall.particle)]
           pose == particles[lastCall.particle].pose
           Score(k) == PdfExponent(pose, Lookup(dict, k), lastCall.z)
       IN  \E k \in Keys(dict) :
               /\ k < 0 /\ k # lastCall.landmark_id
               /\ Score(k) = Score(lastCall.landmark_id)

\* C23: with an empty lidar stream, an empty camera stream or fewer than two
\* odometry readings, slam_sensor_data does not get past the computation of the
\* start time: it never enters the loop and never returns, no event of any
\* stream is processed, and so neither perform_action, make_observation nor
\* resample is called.
C23_IndexErrorAtStart ==
    (Len(data.lidar) = 0 \/ Len(data.camera) = 0 \/ Len(data.odometry) < 2)
        => /\ pc \in {"start", "IndexError"}
           /\ trace = <<>>
           /\ idx = [i |-> -1, j |-> -1, k |-> 0]

\* the call failed although the lidar and the camera stream hold events
C23_Witness ==
    /\ pc = "IndexError"
    /\ Len(data.lidar) > 0 /\ Len(data.camera) > 0 /\ Len(data.odometry) = 1

====
